---- MODULE Spec2Model ----
(***************************************************************************)
(* Model of the alias store of the `web` launcher (src/src/config.rs):     *)
(* the persisted store file, one invocation of add / remove / import       *)
(* running against it, and a second, read-only invocation (`web list`)     *)
(* that may run concurrently with it.                                      *)
(*                                                                         *)
(* Alias names are one letter long; the BTreeMap order of the keys is the  *)
(* alphabetical order of AliasNames.  The store file is a sequence of      *)
(* <<alias, url>> records (one `alias = "url"` line each); writes reach    *)
(* the file record by record.                                              *)
(***************************************************************************)
EXTENDS Integers, Sequences, FiniteSets, TLC

\* ------------------------------------------------------------------ bounds
MaxAlias == 3
MaxRaw == 5

AliasNames == <<"a", "b", "c", "d", "e">>
Aliases == {AliasNames[i] : i \in 1..MaxAlias}
Urls == {"x", "y", "z"}
Chars == Aliases \cup {",", " "}

VARIABLES
    file,          \* the store file: [exists, content]
    pc,            \* position of the invocation
    cmd,           \* "none" | "add" | "remove" | "import"
    config,        \* `config.aliases` of the invocation
    names,         \* parse_aliases(aliases) of remove
    imported,      \* `imported.aliases` of import
    new_aliases,   \* import: Vec<(alias, url)>
    conflicts,     \* import: Vec<(alias, existing_url, imported_url)>
    unchanged,     \* import counters
    overwritten,
    skipped,
    bulk_action,   \* "None" | "Some(true)" | "Some(false)"
    idx,           \* import: position of the conflict loop (1-based)
    pending,       \* save: records not yet written by write_all
    err,           \* the error the invocation returned
    prompts,       \* history: every answered Select prompt, in order
    current,       \* history: the mapping load() returned to the invocation
    file0,         \* history: the store file when the invocation loaded it
    rpc,           \* the concurrent `web list`: "idle" | "listed"
    rview          \* what its load() returned

vars == <<file, pc, cmd, config, names, imported, new_aliases, conflicts,
          unchanged, overwritten, skipped, bulk_action, idx, pending, err,
          prompts, current, file0, rpc, rview>>

mainVars == <<pc, cmd, config, names, imported, new_aliases, conflicts,
              unchanged, overwritten, skipped, bulk_action, idx, pending, err,
              prompts, current, file0>>
importVars == <<imported, new_aliases, conflicts, unchanged, overwritten,
                skipped, bulk_action, idx, prompts>>
readerVars == <<rpc, rview>>

\* ------------------------------------------------------- BTreeMap<String,String>
Empty == [a \in {} |-> "x"]
Mappings == UNION {[S -> Urls] : S \in SUBSET Aliases}

Rank(a) == CHOOSE i \in 1..Len(AliasNames) : AliasNames[i] = a

insert(m, a, u) == [k \in DOMAIN m \cup {a} |-> IF k = a THEN u ELSE m[k]]

remove(m, a) == [k \in DOMAIN m \ {a} |-> m[k]]

\* the keys of a BTreeMap in iteration order
RECURSIVE keys(_)
keys(S) ==
    IF S = {} THEN <<>>
    ELSE LET lo == CHOOSE a \in S : \A b \in S : Rank(a) <= Rank(b)
         IN  <<lo>> \o keys(S \ {lo})

\* ------------------------------------------------------------ TOML text
RECURSIVE to_toml_from(_, _)
to_toml_from(m, ks) ==
    IF ks = <<>> THEN <<>>
    ELSE <<<<Head(ks), m[Head(ks)]>>>> \o to_toml_from(m, Tail(ks))

to_toml(m) == to_toml_from(m, keys(DOMAIN m))

RECURSIVE from_toml(_)
from_toml(content) ==
    IF content = <<>> THEN Empty
    ELSE LET n == Len(content)
         IN  insert(from_toml(SubSeq(content, 1, n - 1)), content[n][1], content[n][2])

NoFile == [exists |-> FALSE, content |-> <<>>]

load(f) == IF ~f.exists THEN Empty ELSE from_toml(f.content)

\* ------------------------------------------------------------ parse_aliases
RECURSIVE split(_, _)
split(s, cur) ==
    IF s = <<>> THEN <<cur>>
    ELSE IF Head(s) = "," THEN <<cur>> \o split(Tail(s), <<>>)
    ELSE split(Tail(s), Append(cur, Head(s)))

RECURSIVE trim_start(_)
trim_start(s) == IF s # <<>> /\ Head(s) = " " THEN trim_start(Tail(s)) ELSE s

RECURSIVE trim_end(_)
trim_end(s) ==
    IF s # <<>> /\ s[Len(s)] = " " THEN trim_end(SubSeq(s, 1, Len(s) - 1)) ELSE s

trim(s) == trim_end(trim_start(s))

segments(raw) == LET parts == split(raw, <<>>)
                 IN  SelectSeq([i \in 1..Len(parts) |-> trim(parts[i])],
                               LAMBDA t : t # <<>>)

parse_aliases(raw) == LET segs == segments(raw)
                      IN  [i \in 1..Len(segs) |-> segs[i][1]]

\* the command-line strings of the model: every name in them is one letter
RawInputs ==
    {r \in UNION {[1..n -> Chars] : n \in 0..MaxRaw} :
        \A i \in 1..Len(segments(r)) : Len(segments(r)[i]) = 1}

\* what parse_aliases hands to add / remove, over all of them
NameLists == {parse_aliases(r) : r \in RawInputs}

\* ------------------------------------------------------------ add / remove
RECURSIVE add_loop(_, _, _)
add_loop(cfg, ns, url) ==
    IF ns = <<>> THEN cfg
    ELSE add_loop(insert(cfg, Head(ns), url), Tail(ns), url)

NoError == [kind |-> "none", alias |-> ""]
NotFound(a) == [kind |-> "not_found", alias |-> a]
PromptError(a) == [kind |-> "prompt", alias |-> a]

\* the loop of remove_alias: the mapping it leaves and the error it bails with
RECURSIVE remove_loop_continue(_, _)
remove_loop_continue(cfg, ns) ==
    IF ns = <<>> THEN [config |-> cfg, err |-> NoError]
    ELSE remove_loop_continue(remove(cfg, Head(ns)), Tail(ns))

remove_loop_checking_first(cfg, ns) ==
    IF \E i \in 1..Len(ns) : ns[i] \notin DOMAIN cfg
    THEN LET i == CHOOSE i \in 1..Len(ns) :
                    /\ ns[i] \notin DOMAIN cfg
                    /\ \A j \in 1..(i - 1) : ns[j] \in DOMAIN cfg
         IN  [config |-> cfg, err |-> NotFound(ns[i])]
    ELSE remove_loop_continue(cfg, ns)

RECURSIVE remove_loop(_, _)
remove_loop(cfg, ns) ==
    IF ns = <<>> THEN [config |-> cfg, err |-> NoError]
    ELSE IF Head(ns) \notin DOMAIN cfg
         THEN [config |-> cfg, err |-> NotFound(Head(ns))]
         ELSE remove_loop(remove(cfg, Head(ns)), Tail(ns))

\* ------------------------------------------------------------ import helpers
classify_entry_no_equal_arm(cfg, alias, imported_url) ==
    IF alias \in DOMAIN cfg THEN "conflict" ELSE "new"

classify_entry(cfg, alias, imported_url) ==
    IF alias \in DOMAIN cfg
    THEN IF cfg[alias] = imported_url THEN "unchanged" ELSE "conflict"
    ELSE "new"

new_aliases_of(cfg, imp) ==
    LET ks == keys(DOMAIN imp)
        sel == SelectSeq(ks, LAMBDA a : classify_entry(cfg, a, imp[a]) = "new")
    IN  [i \in 1..Len(sel) |-> <<sel[i], imp[sel[i]]>>]

conflicts_of(cfg, imp) ==
    LET ks == keys(DOMAIN imp)
        sel == SelectSeq(ks, LAMBDA a : classify_entry(cfg, a, imp[a]) = "conflict")
    IN  [i \in 1..Len(sel) |-> <<sel[i], cfg[sel[i]], imp[sel[i]]>>]

unchanged_of_uncounted(cfg, imp) == 0

unchanged_of(cfg, imp) ==
    LET ks == keys(DOMAIN imp)
    IN  Len(SelectSeq(ks, LAMBDA a : classify_entry(cfg, a, imp[a]) = "unchanged"))

apply_new_nothing(cfg, new) == cfg

RECURSIVE apply_new(_, _)
apply_new(cfg, new) ==
    IF new = <<>> THEN cfg
    ELSE apply_new(insert(cfg, Head(new)[1], Head(new)[2]), Tail(new))

remaining_without_skipped(cs, ow, sk) == Len(cs) - ow

remaining(cs, ow, sk) == Len(cs) - ow - sk

items_len(rem) == IF rem > 1 THEN 4 ELSE 2

use_imported_always(selection) == TRUE

\* whether the match on `selection` inserts the imported url
use_imported(selection) == selection \in {1, 3}

bulk_of_never(selection) == "None"

\* the bulk_action the match on `selection` leaves
bulk_of(selection) ==
    CASE selection = 2 -> "Some(false)"
      [] selection = 3 -> "Some(true)"
      [] OTHER -> "None"

after_conflict(i, cs) == IF i > Len(cs) THEN "save" ELSE "conflicts"

added == Len(new_aliases)

\* ------------------------------------------------------------ state machine
Init ==
    /\ file = NoFile
    /\ pc = "idle"
    /\ cmd = "none"
    /\ config = Empty
    /\ names = <<>>
    /\ imported = Empty
    /\ new_aliases = <<>>
    /\ conflicts = <<>>
    /\ unchanged = 0
    /\ overwritten = 0
    /\ skipped = 0
    /\ bulk_action = "None"
    /\ idx = 0
    /\ pending = <<>>
    /\ err = NoError
    /\ prompts = <<>>
    /\ current = Empty
    /\ file0 = NoFile
    /\ rpc = "idle"
    /\ rview = Empty

\* `web add <aliases> <url>`: load, insert every parsed name
add_alias ==
    /\ pc = "idle"
    /\ \E ns \in NameLists, url \in Urls :
         config' = add_loop(load(file), ns, url)
    /\ UNCHANGED names
    /\ cmd' = "add"
    /\ current' = load(file)
    /\ file0' = file
    /\ pc' = "save"
    /\ UNCHANGED <<file, pending, err>>
    /\ UNCHANGED importVars
    /\ UNCHANGED readerVars

\* `web remove <aliases>`: load, remove every parsed name or bail at the first
\* one that is not there
remove_alias ==
    /\ pc = "idle"
    /\ \E ns \in NameLists :
         LET r == remove_loop(load(file), ns)
         IN  /\ names' = ns
             /\ config' = r.config
             /\ err' = r.err
             /\ pc' = IF r.err = NoError THEN "save" ELSE "failed"
    /\ cmd' = "remove"
    /\ current' = load(file)
    /\ file0' = file
    /\ UNCHANGED <<file, pending>>
    /\ UNCHANGED importVars
    /\ UNCHANGED readerVars

\* import with an input that holds no alias: returns before load
import_empty ==
    /\ pc = "idle"
    /\ cmd' = "import"
    /\ imported' = Empty
    /\ pc' = "done"
    /\ UNCHANGED <<file, config, names, new_aliases, conflicts, unchanged,
                   overwritten, skipped, bulk_action, idx, pending, err,
                   prompts, current, file0>>
    /\ UNCHANGED readerVars

\* import, up to the conflict loop: load, classify every imported entry, apply
\* the new ones
import_begin(imp) ==
    LET cfg == load(file)
    IN  /\ imported' = imp
        /\ new_aliases' = new_aliases_of(cfg, imp)
        /\ conflicts' = conflicts_of(cfg, imp)
        /\ unchanged' = unchanged_of(cfg, imp)
        /\ config' = apply_new(cfg, new_aliases_of(cfg, imp))
        /\ pc' = after_conflict(1, conflicts_of(cfg, imp))
        /\ cmd' = "import"
        /\ current' = cfg
        /\ file0' = file
        /\ overwritten' = 0
        /\ skipped' = 0
        /\ bulk_action' = "None"
        /\ idx' = 1
        /\ UNCHANGED <<names, pending, err, prompts>>
        /\ UNCHANGED readerVars

import_aliases_saving_new ==
    /\ pc = "idle"
    /\ \E imp \in Mappings \ {Empty} :
         /\ import_begin(imp)
         /\ file' = [exists |-> TRUE,
                     content |-> to_toml(apply_new(load(file),
                                                   new_aliases_of(load(file), imp)))]

import_aliases ==
    /\ pc = "idle"
    /\ \E imp \in Mappings \ {Empty} :
         /\ import_begin(imp)
         /\ UNCHANGED file

\* one conflict with bulk_action set: no prompt
import_bulk ==
    /\ pc = "conflicts"
    /\ bulk_action # "None"
    /\ IF bulk_action = "Some(true)"
       THEN /\ config' = insert(config, conflicts[idx][1], conflicts[idx][3])
            /\ overwritten' = overwritten + 1
            /\ UNCHANGED skipped
       ELSE /\ skipped' = skipped + 1
            /\ UNCHANGED <<config, overwritten>>
    /\ idx' = idx + 1
    /\ pc' = after_conflict(idx + 1, conflicts)
    /\ UNCHANGED <<file, cmd, names, imported, new_aliases, conflicts, unchanged,
                   bulk_action, pending, err, prompts, current, file0>>
    /\ UNCHANGED readerVars

\* one conflict resolved by the Select prompt
import_prompt ==
    /\ pc = "conflicts"
    /\ bulk_action = "None"
    /\ LET items == items_len(remaining(conflicts, overwritten, skipped))
       IN  \E selection \in 0..(items - 1) :
             /\ IF use_imported(selection)
                THEN /\ config' = insert(config, conflicts[idx][1], conflicts[idx][3])
                     /\ overwritten' = overwritten + 1
                     /\ UNCHANGED skipped
                ELSE /\ skipped' = skipped + 1
                     /\ UNCHANGED <<config, overwritten>>
             /\ bulk_action' = bulk_of(selection)
             /\ prompts' = Append(prompts, [alias |-> conflicts[idx][1],
                                            pos |-> idx,
                                            offered |-> items,
                                            selection |-> selection])
    /\ idx' = idx + 1
    /\ pc' = after_conflict(idx + 1, conflicts)
    /\ UNCHANGED <<file, cmd, names, imported, new_aliases, conflicts, unchanged,
                   pending, err, current, file0>>
    /\ UNCHANGED readerVars

\* the Select prompt fails: `interact()?` returns the error
import_prompt_err ==
    /\ pc = "conflicts"
    /\ bulk_action = "None"
    /\ err' = PromptError(conflicts[idx][1])
    /\ pc' = "failed"
    /\ UNCHANGED <<file, cmd, config, names, pending, current, file0>>
    /\ UNCHANGED importVars
    /\ UNCHANGED readerVars

\* save, first half: serialize, then std::fs::write creates / truncates the file
save_create ==
    /\ pc = "save"
    /\ pending' = to_toml(config)
    /\ file' = [exists |-> TRUE, content |-> <<>>]
    /\ pc' = "write"
    /\ UNCHANGED <<cmd, config, names, err, current, file0>>
    /\ UNCHANGED importVars
    /\ UNCHANGED readerVars

\* save, second half: write_all; each write call takes some of what is left
save_write ==
    /\ pc = "write"
    /\ \E k \in (IF pending = <<>> THEN {0} ELSE 1..Len(pending)) :
         /\ file' = [file EXCEPT !.content = @ \o SubSeq(pending, 1, k)]
         /\ pending' = SubSeq(pending, k + 1, Len(pending))
         /\ pc' = IF k = Len(pending) THEN "done" ELSE "write"
    /\ UNCHANGED <<cmd, config, names, err, current, file0>>
    /\ UNCHANGED importVars
    /\ UNCHANGED readerVars

\* the process exits (0 after "done", 1 after "failed")
main ==
    /\ pc \in {"done", "failed"}
    /\ pc' = "idle"
    /\ cmd' = "none"
    /\ config' = Empty
    /\ names' = <<>>
    /\ imported' = Empty
    /\ new_aliases' = <<>>
    /\ conflicts' = <<>>
    /\ unchanged' = 0
    /\ overwritten' = 0
    /\ skipped' = 0
    /\ bulk_action' = "None"
    /\ idx' = 0
    /\ pending' = <<>>
    /\ err' = NoError
    /\ prompts' = <<>>
    /\ current' = Empty
    /\ file0' = NoFile
    /\ UNCHANGED file
    /\ UNCHANGED readerVars

\* a concurrent `web list`: load and collect
list_aliases ==
    /\ rpc = "idle"
    /\ rview' = load(file)
    /\ rpc' = "listed"
    /\ UNCHANGED file
    /\ UNCHANGED mainVars

list_exit ==
    /\ rpc = "listed"
    /\ rpc' = "idle"
    /\ rview' = Empty
    /\ UNCHANGED file
    /\ UNCHANGED mainVars

Next ==
    \/ add_alias
    \/ remove_alias
    \/ import_empty
    \/ import_aliases
    \/ import_bulk
    \/ import_prompt
    \/ import_prompt_err
    \/ save_create
    \/ save_write
    \/ main

Spec == Init /\ [][Next]_vars

\* add / remove racing with a concurrent `web list`
NextConc ==
    \/ add_alias
    \/ remove_alias
    \/ save_create
    \/ save_write
    \/ main
    \/ list_aliases
    \/ list_exit

SpecConc == Init /\ [][NextConc]_vars

\* ------------------------------------------------------------ properties
Range(q) == {q[i] : i \in 1..Len(q)}

ImportDone == cmd = "import" /\ pc = "done" /\ imported # Empty

IsNew(a) == a \in DOMAIN imported /\ a \notin DOMAIN current
IsUnchanged(a) ==
    a \in DOMAIN imported /\ a \in DOMAIN current /\ current[a] = imported[a]
IsConflict(a) ==
    a \in DOMAIN imported /\ a \in DOMAIN current /\ current[a] # imported[a]

CountedNew(a) == Cardinality({i \in 1..Len(new_aliases) : new_aliases[i][1] = a})
CountedConflict(a) == Cardinality({i \in 1..Len(conflicts) : conflicts[i][1] = a})

\* C1: an import that reaches its summary has added + overwritten + skipped +
\* unchanged equal to the size of the incoming mapping, and every incoming
\* alias was counted in exactly one of the classes new / unchanged / conflicting.
C1_PartitionComplete ==
    ImportDone =>
        /\ added + overwritten + skipped + unchanged = Cardinality(DOMAIN imported)
        /\ unchanged = Cardinality({a \in DOMAIN imported : IsUnchanged(a)})
        /\ overwritten + skipped = Len(conflicts)
        /\ \A a \in DOMAIN imported :
             /\ CountedNew(a) = (IF IsNew(a) THEN 1 ELSE 0)
             /\ CountedConflict(a) = (IF IsConflict(a) THEN 1 ELSE 0)

C1_Witness ==
    /\ ImportDone
    /\ added > 0
    /\ unchanged > 0
    /\ overwritten + skipped > 0

\* C2: when the Select prompt fails at a conflict, the store file is what it
\* was before the import: neither the new entries inserted in memory nor the
\* conflicts already overwritten have been persisted.
C2_NoPartialPersistence ==
    (cmd = "import" /\ pc = "failed") =>
        /\ err.kind = "prompt"
        /\ file = file0
        /\ load(file) = current

C2_Witness ==
    /\ cmd = "import"
    /\ pc = "failed"
    /\ added > 0
    /\ overwritten > 0
    /\ config # current
    /\ file = file0

BulkPrompts == {i \in 1..Len(prompts) : prompts[i].selection \in {2, 3}}

\* C3: once a prompt is answered 'Keep all existing' or 'Use all imported', no
\* later conflict of that import is prompted for; every later conflict keeps
\* its existing target after 'Keep all existing' and gets the imported one
\* after 'Use all imported'; the bulk flag stays what that answer made it.
C3_BulkMonotone ==
    cmd = "import" =>
        /\ \A i \in BulkPrompts : i = Len(prompts)
        /\ (BulkPrompts = {}) <=> (bulk_action = "None")
        /\ \A i \in BulkPrompts :
             /\ bulk_action = bulk_of(prompts[i].selection)
             /\ pc # "failed"
             /\ \A j \in (prompts[i].pos + 1)..(idx - 1) :
                  config[conflicts[j][1]] =
                      (IF prompts[i].selection = 2
                       THEN conflicts[j][2] ELSE conflicts[j][3])

C3_Witness ==
    /\ ImportDone
    /\ Len(conflicts) = 3
    /\ Len(prompts) = 1
    /\ prompts[1].selection = 2
    /\ skipped = 3

\* C4: after a completed import every alias that was in the incoming mapping
\* and not in the store maps to its incoming target, in memory and in the
\* saved store, whatever the prompts answered.
C4_NewAlwaysApplied ==
    ImportDone =>
        \A a \in DOMAIN imported \ DOMAIN current :
            /\ a \in DOMAIN config
            /\ config[a] = imported[a]
            /\ a \in DOMAIN load(file)
            /\ load(file)[a] = imported[a]

C4_Witness ==
    /\ ImportDone
    /\ added > 0
    /\ skipped > 0
    /\ overwritten > 0

ExampleCurrent == [a \in {"a", "b"} |-> IF a = "a" THEN "x" ELSE "y"]
ExampleImported(w) ==
    [a \in {"a", "b", "c"} |-> IF a = "a" THEN "x" ELSE IF a = "b" THEN "z" ELSE w]
IsExample == current = ExampleCurrent /\ \E w \in Urls : imported = ExampleImported(w)

\* C5: the prompt is reached only for aliases present in both mappings with
\* different targets, never for an unchanged or a new alias; with current =
\* {a:x, b:y} and incoming = {a:x, b:z, c:w} it is reached exactly once, for b.
C5_OnlyConflictsPrompted ==
    cmd = "import" =>
        /\ \A i \in 1..Len(prompts) : IsConflict(prompts[i].alias)
        /\ (err.kind = "prompt" => IsConflict(err.alias))
        /\ (ImportDone /\ IsExample) => (Len(prompts) = 1 /\ prompts[1].alias = "b")

C5_Witness ==
    /\ ImportDone
    /\ IsExample
    /\ Len(prompts) = 1
    /\ unchanged = 1
    /\ added = 1

AbsentAt(i) == names[i] \notin DOMAIN current
RepeatAt(i) == \E j \in 1..(i - 1) : names[j] = names[i]
FirstAbsent ==
    CHOOSE i \in 1..Len(names) : AbsentAt(i) /\ \A j \in 1..(i - 1) : ~AbsentAt(j)
FirstMissing ==
    CHOOSE i \in 1..Len(names) :
        /\ AbsentAt(i) \/ RepeatAt(i)
        /\ \A j \in 1..(i - 1) : ~(AbsentAt(j) \/ RepeatAt(j))

\* C6 as stated: a remove whose list holds a name absent from the store fails
\* naming the first absent name in list order, and the store file is unchanged.
C6_FirstAbsentNamed ==
    (cmd = "remove" /\ \E i \in 1..Len(names) : AbsentAt(i)) =>
        /\ pc = "failed"
        /\ err = NotFound(names[FirstAbsent])
        /\ file = file0

\* C6 amended: such a remove fails naming the first name in list order that is
\* absent from the store or repeats an earlier name of the list; the names
\* before it are gone from the in-memory mapping and still in the store file.
C6_FirstMissingNamed ==
    (cmd = "remove" /\ \E i \in 1..Len(names) : AbsentAt(i)) =>
        /\ pc = "failed"
        /\ err = NotFound(names[FirstMissing])
        /\ file = file0
        /\ load(file) = current
        /\ \A j \in 1..(FirstMissing - 1) :
             names[j] \notin DOMAIN config /\ names[j] \in DOMAIN load(file)

C6_Witness ==
    /\ cmd = "remove"
    /\ pc = "failed"
    /\ names = <<"a", "b">>
    /\ DOMAIN current = {"a"}
    /\ err = NotFound("b")
    /\ "a" \notin DOMAIN config
    /\ "a" \in DOMAIN load(file)

\* C7: what a concurrent invocation loads from the store file while a save is
\* writing it is the complete previous mapping or the complete new one.
C7_AtomicSave ==
    (rpc = "listed" /\ pc = "write" /\ rview = load(file)) =>
        rview \in {current, config}

\* C8: a prompt offers the two bulk choices exactly when a later conflict is
\* still unresolved; the prompt for the last conflict offers two choices, so
\* no bulk answer comes from the last conflict.
C8_BulkOfferedIffMoreRemain ==
    cmd = "import" =>
        \A i \in 1..Len(prompts) :
            /\ prompts[i].offered = (IF prompts[i].pos < Len(conflicts) THEN 4 ELSE 2)
            /\ prompts[i].selection < prompts[i].offered
            /\ prompts[i].selection \in {2, 3} => prompts[i].pos < Len(conflicts)

C8_Witness ==
    /\ ImportDone
    /\ Len(conflicts) = 2
    /\ Len(prompts) = 2
    /\ prompts[1].selection = 0
    /\ prompts[1].offered = 4
    /\ prompts[2].offered = 2

Prompted(a) == \E i \in 1..Len(prompts) : prompts[i].alias = a
ResolvedOverwrite(a) ==
    /\ IsConflict(a)
    /\ \/ \E i \in 1..Len(prompts) :
            prompts[i].alias = a /\ prompts[i].selection \in {1, 3}
       \/ ~Prompted(a) /\ \E i \in 1..Len(prompts) : prompts[i].selection = 3

\* C9: after a completed import every alias of the store maps to its incoming
\* target if its conflict was resolved as overwrite and to its old target
\* otherwise; the keys of the result are those of the store and of the
\* incoming mapping together; the result is what was saved.
C9_MergeResult ==
    ImportDone =>
        /\ \A a \in DOMAIN current :
             /\ a \in DOMAIN config
             /\ config[a] = (IF ResolvedOverwrite(a) THEN imported[a] ELSE current[a])
        /\ DOMAIN config = DOMAIN current \cup DOMAIN imported
        /\ load(file) = config

C9_Witness ==
    /\ ImportDone
    /\ DOMAIN current \ DOMAIN imported # {}
    /\ overwritten = 1
    /\ skipped = 1
    /\ Len(prompts) = 2

AllPresent == \A i \in 1..Len(names) : ~AbsentAt(i)
NoRepeat == \A i \in 1..Len(names) : ~RepeatAt(i)
FirstRepeat ==
    CHOOSE i \in 1..Len(names) : RepeatAt(i) /\ \A j \in 1..(i - 1) : ~RepeatAt(j)

\* C10: remove succeeds, saving the store without the named aliases and with
\* the others as they were, exactly when every parsed name is in the loaded
\* store and none occurs twice; a repeated name fails as not found at its
\* second occurrence and nothing is saved.
C10_RemoveSucceedsIff ==
    cmd = "remove" =>
        /\ (pc \in {"save", "write", "done"}) <=> (AllPresent /\ NoRepeat)
        /\ (pc = "failed") <=> ~(AllPresent /\ NoRepeat)
        /\ pc = "done" =>
             load(file) = [a \in DOMAIN current \ Range(names) |-> current[a]]
        /\ (AllPresent /\ ~NoRepeat) =>
             /\ err = NotFound(names[FirstRepeat])
             /\ file = file0

C10_Witness ==
    /\ cmd = "remove"
    /\ pc = "failed"
    /\ names = <<"a", "a">>
    /\ "a" \in DOMAIN current
    /\ err = NotFound("a")

====
